---------------------------- MODULE Spec2Model ----------------------------
(***************************************************************************)
(* Model of the MaziShark gridded data service (src/api/index.py).         *)
(*                                                                         *)
(* Numbers: latitudes and longitudes are whole degrees; H_index cell       *)
(* values are hundredths (0.7 is 70, 0.4 is 40).  A cell is a record so    *)
(* that NaN and the infinities are values of their own.                    *)
(***************************************************************************)
EXTENDS Integers, Sequences, FiniteSets, TLC

VARIABLES
    tableState,   \* metadata.json on disk: "ok", "missing" or "corrupt"
    fileState,    \* per registered layer, its .nc file on disk
    hFile,        \* the grid stored in habitat_index_H.nc
    geoFile,      \* habitat_potentiel.geojson on disk: "ok", "missing" or "corrupt"
    metaCache,    \* lru_cache of load_metadata: <<>> or <<table>>
    cache,        \* _DATASET_CACHE: a dict, layer name -> loaded instance
    nextId,       \* identity of the next object xr.open_dataset creates
    tableReads,   \* how often metadata.json was opened
    okTableReads, \* how often it was opened and parsed
    firstOk,      \* history: per layer, what the first successful cached load returned
    lm,           \* the load_metadata call of the latest step, if it made one
    ln,           \* the load_netcdf call of the latest step, with what it saw before
    resp,         \* the response of the latest step, if it was a request
    pc,           \* per request thread, its position inside load_netcdf
    req,          \* per request thread, the call it runs and its locals
    lastWriter,   \* per layer, the instance of the latest cache store
    sIn,          \* sample_data: its arguments
    sOut,         \* sample_data: what it returned
    axes          \* get_lat_lon_arrays: what it returned for the grid in hFile

svcVars == <<tableState, fileState, hFile, geoFile, metaCache, cache, nextId,
             tableReads, okTableReads, firstOk, lm, ln, resp>>
concVars == <<pc, req, lastWriter>>
sampleVars == <<sIn, sOut>>
resolveVars == <<axes>>
vars == <<svcVars, concVars, sampleVars, resolveVars>>

-----------------------------------------------------------------------------
(* Bounds of the model *)

MaxRows == 5
MaxCols == 8
MaxPoints == 6
MaxLoads == 3
MaxTableReads == 2
NumProcs == 2
MaxCalls == 3
MaxLat == 22
MaxLon == 12

\* Cut points of predict's interpretation, in hundredths (0.7 and 0.4)
HighCut == 70
ModerateCut == 40

-----------------------------------------------------------------------------
(* Small arithmetic *)

Abs(x) == IF x < 0 THEN -x ELSE x

\* ceil(a / b) for a >= 0, b >= 1
CeilDiv(a, b) == (a + b - 1) \div b

RECURSIVE SeqMin(_)
SeqMin(s) ==
    IF Len(s) = 1 THEN s[1]
    ELSE LET m == SeqMin(Tail(s)) IN IF s[1] <= m THEN s[1] ELSE m

RECURSIVE SeqMax(_)
SeqMax(s) ==
    IF Len(s) = 1 THEN s[1]
    ELSE LET m == SeqMax(Tail(s)) IN IF s[1] >= m THEN s[1] ELSE m

-----------------------------------------------------------------------------
(* sample_data *)

\* A rows x cols array whose cell (r, c), counted from 0, holds r * cols + c:
\* every cell is told apart from every other.
MakeData(rows, cols) ==
    [r \in 1..rows |-> [c \in 1..cols |-> (r - 1) * cols + (c - 1)]]

\* data.size of a 2-D array
Size(data) == IF Len(data) = 0 THEN 0 ELSE Len(data) * Len(data[1])

\* Variant: the root rounded down instead of up.
FactorFloor(size, max_points) ==
    CHOOSE f \in 1..size :
        /\ f * f * max_points <= size
        /\ (f + 1) * (f + 1) * max_points > size

\* int(np.ceil(np.sqrt(size / max_points))) for size > max_points >= 1: the
\* integer f with (f-1)^2 < size / max_points <= f^2.  The quotient and the
\* root are doubles in the code; the model takes them exactly, which agrees
\* with the doubles for the sizes within the model's bounds.
Factor(size, max_points) ==
    CHOOSE f \in 1..size :
        /\ (f - 1) * (f - 1) * max_points < size
        /\ size <= f * f * max_points

\* The positions s[0::step] of a length-n axis, counted from 0, as Python's
\* extended slice walks them.
RECURSIVE SliceFrom(_, _, _)
SliceFrom(k, n, step) ==
    IF k >= n THEN <<>> ELSE <<k>> \o SliceFrom(k + step, n, step)

Stride(n, step) == SliceFrom(0, n, step)

\* data[::factor, ::factor]
Decimate(data, factor) ==
    LET rs == Stride(Len(data), factor)
        cs == Stride(Len(data[1]), factor)
    IN [a \in 1..Len(rs) |-> [b \in 1..Len(cs) |-> data[rs[a] + 1][cs[b] + 1]]]

sample_data(data, max_points) ==
    IF Size(data) <= max_points
    THEN [values |-> data, factor |-> 1]
    ELSE LET factor == Factor(Size(data), max_points)
         IN [values |-> Decimate(data, factor), factor |-> factor]

-----------------------------------------------------------------------------
(* Grids: what xr.open_dataset yields for a backing file *)

Fin(v) == [kind |-> "finite", v |-> v]
NaN == [kind |-> "nan", v |-> 0]
PosInf == [kind |-> "inf", v |-> 1]
NegInf == [kind |-> "inf", v |-> -1]

\* The spec's example axes; cells on both sides of each cut point.
GridPlain ==
    [coords |-> [lat |-> <<0, 10, 20>>, lon |-> <<0, 10>>],
     vars   |-> <<>>,
     dims   |-> [lat |-> 3, lon |-> 2],
     H      |-> << <<Fin(71), Fin(40)>>,
                   <<Fin(41), Fin(70)>>,
                   <<NaN,     Fin(0)>> >>]

\* Axes that are not monotonic and repeat a value.
GridShuffled ==
    [coords |-> [lat |-> <<20, 0, 10, 0>>, lon |-> <<10, 0, 10>>],
     vars   |-> <<>>,
     dims   |-> [lat |-> 4, lon |-> 3],
     H      |-> << <<Fin(100), PosInf,   Fin(-10)>>,
                   <<Fin(69),  Fin(150), NegInf>>,
                   <<Fin(39),  Fin(72),  Fin(40)>>,
                   <<Fin(70),  NaN,      Fin(41)>> >>]

\* Descending axes with a negative longitude.
GridDescending ==
    [coords |-> [lat |-> <<20, 10, 0>>, lon |-> <<5, -5>>],
     vars   |-> <<>>,
     dims   |-> [lat |-> 3, lon |-> 2],
     H      |-> << <<Fin(0),  Fin(71)>>,
                   <<Fin(70), Fin(41)>>,
                   <<Fin(40), PosInf>> >>]

\* Axes under the long names only.
GridLongNames ==
    [coords |-> [latitude |-> <<0, 10, 20>>, longitude |-> <<0, 10>>],
     vars   |-> <<>>,
     dims   |-> [latitude |-> 3, longitude |-> 2],
     H      |-> << <<Fin(71), Fin(40)>>,
                   <<Fin(41), Fin(70)>>,
                   <<NaN,     Fin(0)>> >>]

\* No latitude axis under any name.
GridNoAxes ==
    [coords |-> [lon |-> <<0, 10>>],
     vars   |-> <<>>,
     dims   |-> [y |-> 2, lon |-> 2],
     H      |-> << <<Fin(71), Fin(40)>>,
                   <<Fin(41), Fin(70)>> >>]

GridSet == {GridPlain, GridShuffled, GridDescending, GridLongNames, GridNoAxes}

\* sst_celsius.nc: another grid, told apart from every habitat grid.
GridSst ==
    [coords |-> [lat |-> <<0, 10>>, lon |-> <<0, 10>>],
     vars   |-> <<>>,
     dims   |-> [lat |-> 2, lon |-> 2],
     H      |-> << <<Fin(15), Fin(16)>>,
                   <<Fin(17), Fin(18)>> >>]

\* "name in ds.coords", "name in ds.variables" (coordinates are variables)
InCoords(ds, name) == name \in DOMAIN ds.coords
InVariables(ds, name) == name \in DOMAIN ds.coords \cup DOMAIN ds.vars

Raised(kind) == [ok |-> FALSE, exc |-> kind, arr |-> <<>>]
Got(arr) == [ok |-> TRUE, exc |-> "", arr |-> arr]

\* ds[name].values: a variable's values; for a dimension that has no variable
\* xarray gives the positions 0..n-1; otherwise KeyError.
GetItem(ds, name) ==
    IF name \in DOMAIN ds.coords THEN Got(ds.coords[name])
    ELSE IF name \in DOMAIN ds.vars THEN Got(ds.vars[name])
    ELSE IF name \in DOMAIN ds.dims
         THEN Got([k \in 1..ds.dims[name] |-> k - 1])
    ELSE Raised("KeyError")

-----------------------------------------------------------------------------
(* get_lat_lon_arrays *)

\* The variant that searches by name first, then by place
ResolveAxisByName(ds, short, long) ==
    IF InVariables(ds, short) THEN GetItem(ds, short)
    ELSE IF InVariables(ds, long) THEN GetItem(ds, long)
    ELSE Raised("ValueError")

ResolveAxis(ds, short, long) ==
    IF InCoords(ds, short) THEN GetItem(ds, short)
    ELSE IF InCoords(ds, long) THEN GetItem(ds, long)
    ELSE IF InVariables(ds, short) THEN GetItem(ds, short)
    ELSE IF InVariables(ds, long) THEN GetItem(ds, long)
    ELSE Raised("ValueError")

\* The names the error message lists: list(ds.coords) and list(ds.variables)
Inspected(ds) == DOMAIN ds.coords \cup DOMAIN ds.vars

get_lat_lon_arrays(ds) ==
    LET la == ResolveAxis(ds, "lat", "latitude")
        lo == ResolveAxis(ds, "lon", "longitude")
        failed(e) == [ok |-> FALSE, exc |-> e, lat |-> <<>>, lon |-> <<>>,
                      inspected |-> Inspected(ds)]
    IN IF ~la.ok THEN failed(la.exc)
       ELSE IF ~lo.ok THEN failed(lo.exc)
       ELSE [ok |-> TRUE, exc |-> "", lat |-> la.arr, lon |-> lo.arr, inspected |-> {}]

-----------------------------------------------------------------------------
(* validate_coordinates *)

NoError == [axis |-> "", value |-> 0, lo |-> 0, hi |-> 0]

\* Variant: the upper end excluded.
InHalfOpen(lo, x, hi) == lo <= x /\ x < hi

InRange(lo, x, hi) == lo <= x /\ x <= hi

\* status 200: returns None; 400: the HTTPException raised; 500: the
\* ValueError of get_lat_lon_arrays, which predict turns into a 500.
validate_coordinates(lat, lon, ds) ==
    LET ax == get_lat_lon_arrays(ds) IN
    IF ~ax.ok THEN [status |-> 500, err |-> NoError]
    ELSE LET lat_min == SeqMin(ax.lat)
             lat_max == SeqMax(ax.lat)
             lon_min == SeqMin(ax.lon)
             lon_max == SeqMax(ax.lon)
         IN IF ~InRange(lat_min, lat, lat_max)
            THEN [status |-> 400,
                  err |-> [axis |-> "Latitude", value |-> lat,
                           lo |-> lat_min, hi |-> lat_max]]
            ELSE IF ~InRange(lon_min, lon, lon_max)
            THEN [status |-> 400,
                  err |-> [axis |-> "Longitude", value |-> lon,
                           lo |-> lon_min, hi |-> lon_max]]
            ELSE [status |-> 200, err |-> NoError]

-----------------------------------------------------------------------------
(* predict, after the dataset is loaded *)

\* np.abs(arr - x)
AbsDiff(arr, x) == [k \in 1..Len(arr) |-> Abs(arr[k] - x)]

\* argmin scans left to right and keeps the first smallest element
RECURSIVE ArgMinScan(_, _, _)
ArgMinScan(d, k, best) ==
    IF k > Len(d) THEN best
    ELSE ArgMinScan(d, k + 1, IF d[k] < d[best] THEN k ELSE best)

\* Variant: a tie goes to the last smallest element.
RECURSIVE ArgMinLastScan(_, _, _)
ArgMinLastScan(d, k, best) ==
    IF k > Len(d) THEN best
    ELSE ArgMinLastScan(d, k + 1, IF d[k] <= d[best] THEN k ELSE best)

ArgMinLast(d) == ArgMinLastScan(d, 2, 1) - 1

\* the index counted from 0, as numpy reports it
ArgMin(d) == ArgMinScan(d, 2, 1) - 1

IsFinite(cell) == cell.kind = "finite"

None == [kind |-> "none", v |-> 0]

\* float(x) if np.isfinite(x) else None
CellValue(cell) == IF IsFinite(cell) THEN cell ELSE None

\* Python truth of "val": None and 0.0 are false
Truthy(val) == val.kind = "finite" /\ val.v # 0

\* Variant: the cut points belong to the upper band.
InterpretationInclusive(val) ==
    IF Truthy(val) /\ val.v >= HighCut THEN "High potential"
    ELSE IF Truthy(val) /\ val.v >= ModerateCut THEN "Moderate potential"
    ELSE "Low potential"

Interpretation(val) ==
    IF Truthy(val) /\ val.v > HighCut THEN "High potential"
    ELSE IF Truthy(val) /\ val.v > ModerateCut THEN "Moderate potential"
    ELSE "Low potential"

NoBody ==
    [H_index |-> None, nearest_lat |-> 0, nearest_lon |-> 0,
     i |-> -1, j |-> -1, interpretation |-> ""]

\* The body of predict's try block once load_netcdf has returned ds.
PredictOn(ds, lat, lon) ==
    LET chk == validate_coordinates(lat, lon, ds) IN
    IF chk.status # 200
    THEN [status |-> chk.status, err |-> chk.err, body |-> NoBody]
    ELSE
    LET la == GetItem(ds, "lat")
        lo == GetItem(ds, "lon")
    IN
    IF ~la.ok \/ ~lo.ok
    THEN [status |-> 500, err |-> NoError, body |-> NoBody]
    ELSE
    LET i == ArgMin(AbsDiff(la.arr, lat))
        j == ArgMin(AbsDiff(lo.arr, lon))
    IN
    IF i >= Len(ds.H) \/ j >= Len(ds.H[1])
    THEN [status |-> 500, err |-> NoError, body |-> NoBody]
    ELSE
    LET val == CellValue(ds.H[i + 1][j + 1]) IN
    [status |-> 200, err |-> NoError,
     body |-> [H_index |-> val,
               nearest_lat |-> la.arr[i + 1],
               nearest_lon |-> lo.arr[j + 1],
               i |-> i, j |-> j,
               interpretation |-> Interpretation(val)]]

-----------------------------------------------------------------------------
(* Backing storage and the two caches *)

\* The keys of metadata.json; a request may also name a layer it lacks.
Registered == {"habitat_index_H", "sst_celsius"}
LayerNames == Registered \cup {"no_such_layer"}

FileStates == {"ok", "missing", "corrupt"}

\* What the layer's file holds
Content(layer) == IF layer = "habitat_index_H" THEN hFile ELSE GridSst

\* d[key] = value on a dict
Put(d, key, value) ==
    [k \in DOMAIN d \cup {key} |-> IF k = key THEN value ELSE d[k]]

\* load_metadata under lru_cache(maxsize=1): a stored result is returned
\* without running the body; the body's result is stored only when it
\* returns, never when it raises.  get_data_path raises before open() when
\* the file is missing.
\* Variant: no lru_cache, the body runs on every call.
load_metadata_uncached ==
    IF tableState = "missing"
    THEN [ok |-> FALSE, table |-> {}, metaCache |-> <<>>, read |-> 0]
    ELSE IF tableState = "corrupt"
    THEN [ok |-> FALSE, table |-> {}, metaCache |-> <<>>, read |-> 1]
    ELSE [ok |-> TRUE, table |-> Registered, metaCache |-> <<Registered>>,
          read |-> 1]

load_metadata ==
    IF metaCache # <<>>
    THEN [ok |-> TRUE, table |-> metaCache[1], metaCache |-> metaCache,
          read |-> 0]
    ELSE IF tableState = "missing"
    THEN [ok |-> FALSE, table |-> {}, metaCache |-> <<>>, read |-> 0]
    ELSE IF tableState = "corrupt"
    THEN [ok |-> FALSE, table |-> {}, metaCache |-> <<>>, read |-> 1]
    ELSE [ok |-> TRUE, table |-> Registered, metaCache |-> <<Registered>>,
          read |-> 1]

\* line 140: use_cache and layer_name in _DATASET_CACHE
\* Variant: the cache is never consulted.
CacheMiss(c, layer_name, use_cache) == FALSE

CacheHit(c, layer_name, use_cache) == use_cache /\ layer_name \in DOMAIN c

\* xr.open_dataset(get_data_path(filename)): <<ds>>, or <<>> when it raises
OpenDataset(layer_name, id) ==
    IF fileState[layer_name] = "ok"
    THEN << [id |-> id, layer |-> layer_name, grid |-> Content(layer_name)] >>
    ELSE <<>>

\* lines 153-154, reached only when open_dataset has returned
\* Variant: a placeholder entry is stored when the open fails.
StoreEvenIfFailed(c, layer_name, use_cache, opened) ==
    IF opened # <<>>
    THEN IF use_cache THEN Put(c, layer_name, opened[1]) ELSE c
    ELSE Put(c, layer_name, [id |-> 0, layer |-> layer_name, grid |-> GridNoAxes])

\* Variant: an existing entry is kept (first writer wins).
StoreIfAbsent(c, layer_name, use_cache, opened) ==
    IF use_cache /\ opened # <<>> /\ layer_name \notin DOMAIN c
    THEN Put(c, layer_name, opened[1])
    ELSE c

\* Variant: the entry is written whatever use_cache says.
StoreAlways(c, layer_name, use_cache, opened) ==
    IF opened # <<>> THEN Put(c, layer_name, opened[1]) ELSE c

Store(c, layer_name, use_cache, opened) ==
    IF use_cache /\ opened # <<>> THEN Put(c, layer_name, opened[1]) ELSE c

\* Status of a registered layer whose file cannot be opened (line 158)
\* Variant: FileNotFoundError mapped to 404.
OpenFailedAsNotFound(layer_name) ==
    IF fileState[layer_name] = "missing" THEN 404 ELSE 500

OpenFailedStatus(layer_name) == 500

\* load_netcdf run to its end from the current state: what it returns or
\* raises, and what it leaves behind.
load_netcdf(layer_name, use_cache) ==
    LET same == [cache |-> cache, metaCache |-> metaCache, nextId |-> nextId,
                 metaCalled |-> FALSE, metaOk |-> FALSE, tableRead |-> 0,
                 opens |-> 0]
    IN
    IF CacheHit(cache, layer_name, use_cache)
    THEN [status |-> 200, res |-> <<cache[layer_name]>>] @@ same
    ELSE
    LET metadata == load_metadata
        afterMeta == [same EXCEPT !.metaCache = metadata.metaCache,
                                  !.metaCalled = TRUE,
                                  !.metaOk = metadata.ok,
                                  !.tableRead = metadata.read]
    IN
    IF ~metadata.ok
    THEN [status |-> 500, res |-> <<>>] @@ afterMeta
    ELSE IF layer_name \notin metadata.table
    THEN [status |-> 404, res |-> <<>>] @@ afterMeta
    ELSE
    LET opened == OpenDataset(layer_name, nextId)
        opens == IF fileState[layer_name] = "missing" THEN 0 ELSE 1
    IN
    [status |-> IF opened # <<>> THEN 200 ELSE OpenFailedStatus(layer_name),
     res |-> opened]
    @@ [afterMeta EXCEPT
          !.cache = Store(cache, layer_name, use_cache, opened),
          !.nextId = IF opened # <<>> THEN nextId + 1 ELSE nextId,
          !.opens = opens]

-----------------------------------------------------------------------------
(* get_habitat_geojson: raster-threshold extraction *)

\* The ceiling of max_features, the cut point of "high" in hundredths (0.8)
\* and the cap of the confidence percentage
MaxFeaturesCeiling == 50000
HighPotentialCut == 80
FullConfidence == 100

Min(a, b) == IF a < b THEN a ELSE b

\* The variant that lets a cell equal to the threshold through
ExceedsOrEqual(cell, threshold) ==
    \/ cell.kind = "finite" /\ cell.v >= threshold
    \/ cell = PosInf

\* h > threshold, threshold in hundredths: NaN compares false with
\* everything, -inf is below and +inf above every threshold
Exceeds(cell, threshold) ==
    \/ cell.kind = "finite" /\ cell.v > threshold
    \/ cell = PosInf

\* The variant that rejects the two endpoints
ThresholdInside(threshold) == 0 < threshold /\ threshold < 100

\* 0.0 <= threshold <= 1.0
ThresholdValid(threshold) == 0 <= threshold /\ threshold <= 100

\* not (max_features < 1 or max_features > 50000)
MaxFeaturesValid(max_features) ==
    ~(max_features < 1 \/ max_features > MaxFeaturesCeiling)

\* np.where(mask): the 0-based (i, j) of the cells of the mask, row by row
Where(H, threshold) ==
    LET rows == Len(H)
        cols == IF rows = 0 THEN 0 ELSE Len(H[1])
        scan == [k \in 1..(rows * cols) |-> <<(k - 1) \div cols, (k - 1) % cols>>]
    IN SelectSeq(scan, LAMBDA ij : Exceeds(H[ij[1] + 1][ij[2] + 1], threshold))

\* One feature; the polygon is the cell centre plus and minus 0.125 degrees
\* and is left to its centre here
Feature(H, lat, lon, ij) ==
    LET cell == H[ij[1] + 1][ij[2] + 1] IN
    [i |-> ij[1], j |-> ij[2],
     H_index |-> cell,
     latitude |-> lat[ij[1] + 1],
     longitude |-> lon[ij[2] + 1],
     habitat_potential |-> IF Exceeds(cell, HighPotentialCut) THEN "high" ELSE "medium",
     confidence |-> IF cell = PosInf THEN FullConfidence
                    ELSE Min(cell.v, FullConfidence)]

\* JSONResponse renders with allow_nan=False: a float that is not finite
\* makes json.dumps raise ValueError
Serializable(features) ==
    \A k \in 1..Len(features) : IsFinite(features[k].H_index)

NoGeojson == <<>>

\* The body of get_habitat_geojson's try block once load_netcdf returned ds
ExtractOn(ds, threshold, max_features) ==
    LET ax == get_lat_lon_arrays(ds) IN
    IF ~ax.ok
    THEN [status |-> 500, geojson |-> NoGeojson]
    ELSE
    LET found == Where(ds.H, threshold)
        total_features == Min(Len(found), max_features)
    IN
    IF \E k \in 1..total_features :
          found[k][1] >= Len(ax.lat) \/ found[k][2] >= Len(ax.lon)
    THEN [status |-> 500, geojson |-> NoGeojson]
    ELSE
    LET features == [k \in 1..total_features |->
                        Feature(ds.H, ax.lat, ax.lon, found[k])]
    IN
    IF ~Serializable(features)
    THEN [status |-> 500, geojson |-> NoGeojson]
    ELSE [status |-> 200,
          geojson |-> << [features |-> features,
                          total_zones |-> Len(features),
                          total_available |-> Len(found),
                          threshold |-> threshold,
                          max_features |-> max_features,
                          message |-> ""] >>]

-----------------------------------------------------------------------------
(* Routes, in the order of their registration *)

Routes ==
    << [path |-> <<>>,                               handler |-> "root"],
       [path |-> <<"health">>,                       handler |-> "health"],
       [path |-> <<"data", "layers">>,               handler |-> "get_layers"],
       [path |-> <<"data", "habitat">>,              handler |-> "get_habitat"],
       [path |-> <<"data", "{layer_name}">>,         handler |-> "get_layer_data"],
       [path |-> <<"data", "{layer_name}", "map">>,  handler |-> "get_layer_map"],
       [path |-> <<"predict">>,                      handler |-> "predict"],
       [path |-> <<"hotspots">>,                     handler |-> "get_hotspots"],
       [path |-> <<"meta">>,                         handler |-> "meta"],
       [path |-> <<"map">>,                          handler |-> "map_legacy"],
       [path |-> <<"data", "habitat">>,              handler |-> "get_habitat_geojson"] >>

Matches(pattern, path) ==
    /\ Len(pattern) = Len(path)
    /\ \A k \in 1..Len(path) : pattern[k] = path[k] \/ pattern[k] = "{layer_name}"

\* The router serves a request with the first route that matches its path
Dispatch(path) ==
    LET hits == {k \in 1..Len(Routes) : Matches(Routes[k].path, path)} IN
    IF hits = {} THEN "not_found"
    ELSE Routes[CHOOSE k \in hits : \A m \in hits : k <= m].handler

-----------------------------------------------------------------------------
(* The service, one request at a time *)

NoCall ==
    [name |-> "", use_cache |-> FALSE, status |-> 0, res |-> <<>>,
     cacheBefore |-> <<>>, firstOkBefore |-> <<>>, metaBefore |-> <<>>,
     tableBefore |-> "ok", fileBefore |-> <<>>, tableRead |-> 0, opens |-> 0]

NoMetaCall == [called |-> FALSE, metaBefore |-> <<>>, ok |-> FALSE, read |-> 0]

NoResp ==
    [op |-> "", path |-> <<>>, layer |-> "", lat |-> 0, lon |-> 0,
     threshold |-> 0, max_features |-> 0, status |-> 0,
     err |-> NoError, body |-> NoBody, geojson |-> NoGeojson,
     sampling_factor |-> 0, cacheBefore |-> <<>>]

\* The record of a load_metadata call that returned m
MetaCall(m) ==
    [called |-> TRUE, metaBefore |-> metaCache, ok |-> m.ok, read |-> m.read]

\* The state a load_metadata call leaves
ApplyMeta(m) ==
    /\ tableReads + m.read <= MaxTableReads
    /\ metaCache' = m.metaCache
    /\ tableReads' = tableReads + m.read
    /\ okTableReads' = okTableReads + (IF m.ok THEN m.read ELSE 0)
    /\ lm' = MetaCall(m)

\* The state a load_netcdf call with outcome o leaves
ApplyLoad(o, layer_name, use_cache) ==
    /\ o.nextId <= MaxLoads + 1
    /\ tableReads + o.tableRead <= MaxTableReads
    /\ cache' = o.cache
    /\ metaCache' = o.metaCache
    /\ nextId' = o.nextId
    /\ tableReads' = tableReads + o.tableRead
    /\ okTableReads' = okTableReads + (IF o.metaOk THEN o.tableRead ELSE 0)
    /\ lm' = IF o.metaCalled
             THEN [called |-> TRUE, metaBefore |-> metaCache, ok |-> o.metaOk,
                   read |-> o.tableRead]
             ELSE NoMetaCall
    /\ firstOk' = IF use_cache /\ o.status = 200 /\ layer_name \notin DOMAIN firstOk
                  THEN Put(firstOk, layer_name, o.res[1])
                  ELSE firstOk
    /\ ln' = [name |-> layer_name, use_cache |-> use_cache,
              status |-> o.status, res |-> o.res,
              cacheBefore |-> cache, firstOkBefore |-> firstOk,
              metaBefore |-> metaCache, tableBefore |-> tableState,
              fileBefore |-> fileState, tableRead |-> o.tableRead,
              opens |-> o.opens]

\* A direct call of load_netcdf
LoadNetcdfCall(layer_name, use_cache) ==
    LET o == load_netcdf(layer_name, use_cache) IN
    /\ ApplyLoad(o, layer_name, use_cache)
    /\ resp' = [NoResp EXCEPT !.op = "load_netcdf", !.layer = layer_name,
                              !.status = o.status, !.cacheBefore = cache]
    /\ UNCHANGED <<tableState, fileState, hFile, geoFile>>

\* GET /
Root ==
    LET m == load_metadata IN
    /\ ApplyMeta(m)
    /\ resp' = [NoResp EXCEPT !.op = "root",
                              !.status = IF m.ok THEN 200 ELSE 500,
                              !.cacheBefore = cache]
    /\ ln' = NoCall
    /\ UNCHANGED <<tableState, fileState, hFile, geoFile, cache, nextId, firstOk>>

\* GET /data/layers
GetLayers ==
    LET m == load_metadata IN
    /\ ApplyMeta(m)
    /\ resp' = [NoResp EXCEPT !.op = "get_layers",
                              !.status = IF m.ok THEN 200 ELSE 500,
                              !.cacheBefore = cache]
    /\ ln' = NoCall
    /\ UNCHANGED <<tableState, fileState, hFile, geoFile, cache, nextId, firstOk>>

\* GET /predict: HTTPException from load_netcdf is re-raised as it is
Predict(lat, lon) ==
    LET o == load_netcdf("habitat_index_H", TRUE)
        r == IF o.status = 200
             THEN PredictOn(o.res[1].grid, lat, lon)
             ELSE [status |-> o.status, err |-> NoError, body |-> NoBody]
    IN
    /\ ApplyLoad(o, "habitat_index_H", TRUE)
    /\ resp' = [NoResp EXCEPT !.op = "predict", !.layer = "habitat_index_H",
                              !.lat = lat, !.lon = lon, !.status = r.status,
                              !.err = r.err, !.body = r.body,
                              !.cacheBefore = cache]
    /\ UNCHANGED <<tableState, fileState, hFile, geoFile>>

\* The content of habitat_potentiel.geojson when the pipeline has written it
PolygonFile ==
    [features |-> << [i |-> -1, j |-> -1, H_index |-> Fin(90),
                      latitude |-> 5, longitude |-> 5,
                      habitat_potential |-> "high", confidence |-> 90] >>,
     total_zones |-> 1, total_available |-> 1,
     threshold |-> 0, max_features |-> 0, message |-> ""]

\* The fallback answer of get_habitat
EmptyCollection ==
    [features |-> <<>>, total_zones |-> 0, total_available |-> 0,
     threshold |-> 0, max_features |-> 0,
     message |-> "GeoJSON non disponible"]

\* A step that calls neither load_netcdf nor load_metadata
NoLoad ==
    /\ lm' = NoMetaCall
    /\ ln' = NoCall
    /\ UNCHANGED <<metaCache, cache, nextId, tableReads, okTableReads, firstOk>>

\* get_habitat, the first handler of /data/habitat: the polygon file if it
\* is there; without it the grid is loaded and an empty collection returned
GetHabitat(path, threshold, max_features) ==
    LET answer(status, geojson) ==
            [NoResp EXCEPT !.op = "get_habitat", !.path = path,
                           !.layer = "habitat_index_H",
                           !.threshold = threshold, !.max_features = max_features,
                           !.status = status, !.geojson = geojson,
                           !.cacheBefore = cache]
    IN
    /\ IF geoFile = "ok"
       THEN /\ NoLoad
            /\ resp' = answer(200, <<PolygonFile>>)
       ELSE IF geoFile = "corrupt"
       THEN /\ NoLoad
            /\ resp' = answer(500, NoGeojson)
       ELSE LET o == load_netcdf("habitat_index_H", TRUE) IN
            /\ ApplyLoad(o, "habitat_index_H", TRUE)
            /\ resp' = IF o.status = 200
                       THEN answer(200, <<EmptyCollection>>)
                       ELSE answer(404, NoGeojson)
    /\ UNCHANGED <<tableState, fileState, hFile, geoFile>>

\* get_habitat_geojson, the second handler of /data/habitat: the parameters
\* are validated, then the grid is loaded and scanned
GetHabitatGeojson(path, threshold, max_features) ==
    LET answer(status, geojson) ==
            [NoResp EXCEPT !.op = "get_habitat_geojson", !.path = path,
                           !.layer = "habitat_index_H",
                           !.threshold = threshold, !.max_features = max_features,
                           !.status = status, !.geojson = geojson,
                           !.cacheBefore = cache]
    IN
    /\ IF ~ThresholdValid(threshold) \/ ~MaxFeaturesValid(max_features)
       THEN /\ NoLoad
            /\ resp' = answer(400, NoGeojson)
       ELSE LET o == load_netcdf("habitat_index_H", TRUE)
                r == IF o.status = 200
                     THEN ExtractOn(o.res[1].grid, threshold, max_features)
                     ELSE [status |-> o.status, geojson |-> NoGeojson]
            IN /\ ApplyLoad(o, "habitat_index_H", TRUE)
               /\ resp' = answer(r.status, r.geojson)
    /\ UNCHANGED <<tableState, fileState, hFile, geoFile>>

\* GET /data/habitat?threshold=..&max_features=..
GetDataHabitat(threshold, max_features) ==
    LET path == <<"data", "habitat">> IN
    IF Dispatch(path) = "get_habitat"
    THEN GetHabitat(path, threshold, max_features)
    ELSE GetHabitatGeojson(path, threshold, max_features)

\* The bounds FastAPI enforces on max_points (ge=100, le=100000) and the
\* status it answers outside them
MinMaxPoints == 100
MaxMaxPoints == 100000
Unprocessable == 422

VALID_COLORMAPS ==
    {"viridis", "plasma", "inferno", "magma", "cividis", "coolwarm", "RdYlBu",
     "RdYlGn", "Spectral", "jet", "hot", "cool", "spring", "summer", "autumn",
     "winter"}

\* The body of get_layer_data's try block once load_netcdf has returned ds;
\* the grid's one data variable is its primary variable
LayerDataOn(ds, sample, max_points) ==
    LET ax == get_lat_lon_arrays(ds) IN
    IF ~ax.ok
    THEN [status |-> 500, sampling_factor |-> 0]
    ELSE IF sample /\ Size(ds.H) > max_points
    THEN [status |-> 200, sampling_factor |-> sample_data(ds.H, max_points).factor]
    ELSE [status |-> 200, sampling_factor |-> 1]

\* GET /data/{layer_name}?sample=..&max_points=..
GetLayerData(layer_name, sample, max_points) ==
    LET answer(status, factor) ==
            [NoResp EXCEPT !.op = "get_layer_data",
                           !.path = <<"data", "{layer_name}">>,
                           !.layer = layer_name, !.status = status,
                           !.sampling_factor = factor, !.cacheBefore = cache]
    IN
    /\ IF max_points < MinMaxPoints \/ max_points > MaxMaxPoints
       THEN /\ NoLoad
            /\ resp' = answer(Unprocessable, 0)
       ELSE LET o == load_netcdf(layer_name, TRUE)
                r == IF o.status = 200
                     THEN LayerDataOn(o.res[1].grid, sample, max_points)
                     ELSE [status |-> o.status, sampling_factor |-> 0]
            IN /\ ApplyLoad(o, layer_name, TRUE)
               /\ resp' = answer(r.status, r.sampling_factor)
    /\ UNCHANGED <<tableState, fileState, hFile, geoFile>>

\* The body of get_layer_map's try block once load_netcdf has returned ds:
\* pcolormesh takes axes as long as the array's sides, or one longer
MapOn(ds) ==
    LET ax == get_lat_lon_arrays(ds) IN
    IF ~ax.ok THEN 500
    ELSE IF /\ Len(ax.lat) \in {Len(ds.H), Len(ds.H) + 1}
            /\ Len(ax.lon) \in {Len(ds.H[1]), Len(ds.H[1]) + 1}
    THEN 200
    ELSE 500

\* GET /data/{layer_name}/map?cmap=..: the colormap is checked before the
\* grid is loaded
GetLayerMap(layer_name, cmap) ==
    LET answer(status) ==
            [NoResp EXCEPT !.op = "get_layer_map",
                           !.path = <<"data", "{layer_name}", "map">>,
                           !.layer = layer_name, !.status = status,
                           !.cacheBefore = cache]
    IN
    /\ IF cmap \notin VALID_COLORMAPS
       THEN /\ NoLoad
            /\ resp' = answer(400)
       ELSE LET o == load_netcdf(layer_name, TRUE) IN
            /\ ApplyLoad(o, layer_name, TRUE)
            /\ resp' = answer(IF o.status = 200 THEN MapOn(o.res[1].grid)
                              ELSE o.status)
    /\ UNCHANGED <<tableState, fileState, hFile, geoFile>>

\* GET /meta: every failure is answered 404
meta ==
    LET o == load_netcdf("habitat_index_H", TRUE)
        found == /\ o.status = 200
                 /\ GetItem(o.res[1].grid, "lat").ok
                 /\ GetItem(o.res[1].grid, "lon").ok
    IN
    /\ ApplyLoad(o, "habitat_index_H", TRUE)
    /\ resp' = [NoResp EXCEPT !.op = "meta", !.path = <<"meta">>,
                              !.layer = "habitat_index_H",
                              !.status = IF found THEN 200 ELSE 404,
                              !.cacheBefore = cache]
    /\ UNCHANGED <<tableState, fileState, hFile, geoFile>>

\* GET /map: get_layer_map("habitat_index_H") is called with cmap left at its
\* default, the Query(...) object, which is no member of VALID_COLORMAPS: the
\* membership test answers 400, or raises TypeError (500) if the object
\* cannot be hashed.  The grid is not loaded.
MapLegacy ==
    /\ NoLoad
    /\ \E status \in {400, 500} :
          resp' = [NoResp EXCEPT !.op = "map_legacy", !.path = <<"map">>,
                                 !.layer = "habitat_index_H",
                                 !.status = status, !.cacheBefore = cache]
    /\ UNCHANGED <<tableState, fileState, hFile, geoFile>>

\* The offline pipeline rewrites, removes or damages a file between requests
StorageChange ==
    /\ \/ \E st \in FileStates \ {tableState} :
            /\ tableState' = st
            /\ fileState' = fileState
       \/ \E layer \in Registered : \E st \in FileStates \ {fileState[layer]} :
            /\ fileState' = [fileState EXCEPT ![layer] = st]
            /\ tableState' = tableState
    /\ lm' = NoMetaCall
    /\ ln' = NoCall
    /\ resp' = NoResp
    /\ UNCHANGED <<hFile, geoFile, metaCache, cache, nextId, tableReads, okTableReads,
                   firstOk>>

ConcIdle ==
    /\ pc = <<>>
    /\ req = <<>>
    /\ lastWriter = <<>>

SampleIdle ==
    /\ sIn = [rows |-> 0, cols |-> 0, max_points |-> 0]
    /\ sOut = <<>>

\* No resolver call was made on its own
ResolveIdle == axes = <<>>

SvcStart ==
    /\ metaCache = <<>>
    /\ cache = <<>>
    /\ nextId = 1
    /\ tableReads = 0
    /\ okTableReads = 0
    /\ firstOk = <<>>
    /\ lm = NoMetaCall
    /\ ln = NoCall

\* Point queries the one-at-a-time service is driven with: inside the grid,
\* latitude outside, longitude outside
SvcQueries == {<<12, 1>>, <<25, 1>>, <<12, -4>>}

Init ==
    /\ tableState \in FileStates
    /\ fileState \in [Registered -> FileStates]
    /\ hFile = GridPlain
    /\ SvcStart
    /\ resp = NoResp
    /\ ConcIdle
    /\ SampleIdle
    /\ ResolveIdle
    /\ geoFile = "missing"

Next ==
    \/ \E layer_name \in LayerNames, use_cache \in BOOLEAN :
          LoadNetcdfCall(layer_name, use_cache) /\ UNCHANGED <<concVars, sampleVars, resolveVars>>
    \/ Root /\ UNCHANGED <<concVars, sampleVars, resolveVars>>
    \/ GetLayers /\ UNCHANGED <<concVars, sampleVars, resolveVars>>
    \/ \E q \in SvcQueries : Predict(q[1], q[2]) /\ UNCHANGED <<concVars, sampleVars, resolveVars>>
    \/ StorageChange /\ UNCHANGED <<concVars, sampleVars, resolveVars>>

Spec == Init /\ [][Next]_vars

-----------------------------------------------------------------------------
(* Claims about the one-at-a-time service (Spec) *)

\* The latest step called load_netcdf
LoadCalled == ln.name # ""

\* The call found its layer in the cache (line 140)
WasHit == ln.use_cache /\ ln.name \in DOMAIN ln.cacheBefore

\* The registry could be had at the call: already loaded, or readable
RegistryAvailable == ln.metaBefore # <<>> \/ ln.tableBefore = "ok"

\* C1: once a load_netcdf(X, use_cache=true) call has succeeded, every later
\* load_netcdf(X, use_cache=true) call succeeds, returns the very instance
\* the first one returned, and reads neither metadata.json nor the layer's
\* file.
C1_CachedLoadIsMemoized ==
    (LoadCalled /\ ln.use_cache /\ ln.name \in DOMAIN ln.firstOkBefore) =>
        /\ ln.status = 200
        /\ ln.res = <<ln.firstOkBefore[ln.name]>>
        /\ ln.opens = 0
        /\ ln.tableRead = 0
        /\ cache = ln.cacheBefore

\* C1 happens: a cached layer is asked for again after its file has gone,
\* and a load with use_cache=false has created another instance in between.
C1_Witness ==
    /\ LoadCalled /\ ln.use_cache
    /\ ln.name \in DOMAIN ln.firstOkBefore
    /\ ln.fileBefore[ln.name] # "ok"
    /\ ln.status = 200
    /\ nextId > ln.res[1].id + 1

\* C2: a load_netcdf call that fails, for whatever reason, leaves
\* _DATASET_CACHE as it found it, and every entry the cache holds is a whole
\* instance loaded for its own key.
C2_FailedLoadKeepsCache ==
    /\ (LoadCalled /\ ln.status # 200) => cache = ln.cacheBefore
    /\ \A k \in DOMAIN cache :
          /\ cache[k].layer = k
          /\ cache[k].grid = Content(k)
          /\ cache[k].id \in 1..(nextId - 1)

\* C2 happens: a load fails for a layer that is in the cache (the call asked
\* for use_cache=false and the file is gone or damaged).
C2_Witness ==
    /\ LoadCalled /\ ln.status = 500
    /\ ln.name \in DOMAIN ln.cacheBefore
    /\ ln.opens = 1
    /\ cache = ln.cacheBefore

\* C4 as stated: metadata.json is opened at most once in the process's life.
C4_TableReadAtMostOnce == tableReads <= 1

\* C4 amended: metadata.json is read successfully at most once; once a read
\* has succeeded every load_metadata call returns the stored table without
\* opening the file.  A read that fails stores nothing, so the next call
\* opens the file again.
C4_TableParsedAtMostOnce ==
    /\ okTableReads <= 1
    /\ okTableReads = 1 <=> metaCache # <<>>
    /\ (lm.called /\ lm.metaBefore # <<>>) => (lm.ok /\ lm.read = 0)
    /\ (lm.called /\ lm.metaBefore = <<>> /\ lm.read = 1 /\ ~lm.ok) => metaCache = <<>>

\* C4 happens: a read failed, a later one succeeded, and a call after that
\* is served from the stored table although the file is unreadable again.
C4_Witness ==
    /\ tableReads = 2 /\ okTableReads = 1
    /\ lm.called /\ lm.metaBefore # <<>> /\ lm.ok
    /\ tableState # "ok"

\* C5: for a load that is not served from the cache and has a registry to
\* consult, the status is 404 exactly when the name is not a key of the
\* registry, and 500 when the name is registered and its file is missing or
\* unparsable; predict passes that 500 on (never 404).
C5_NotFoundOnlyForUnknownName ==
    (LoadCalled /\ ~WasHit) =>
        /\ ln.status = 404 <=> (RegistryAvailable /\ ln.name \notin Registered)
        /\ (RegistryAvailable /\ ln.name \in Registered
              /\ ln.fileBefore[ln.name] # "ok") => ln.status = 500
        /\ (RegistryAvailable /\ ln.name \in Registered
              /\ ln.fileBefore[ln.name] = "ok") => ln.status = 200
        /\ resp.op = "predict" => resp.status # 404
        /\ (resp.op = "predict" /\ ln.status # 200) => resp.status = ln.status

\* C5 happens: predict asks for the habitat layer, which is registered but
\* whose file is missing.
C5_Witness ==
    /\ resp.op = "predict" /\ resp.status = 500
    /\ LoadCalled /\ ~WasHit /\ RegistryAvailable
    /\ ln.fileBefore["habitat_index_H"] = "missing"

-----------------------------------------------------------------------------
(* sample_data on its own (SpecSample) *)

InitSample ==
    /\ sIn \in [rows : 1..MaxRows, cols : 1..MaxCols, max_points : 1..MaxPoints]
    /\ sOut = <<>>
    /\ tableState = "ok"
    /\ fileState = [layer \in Registered |-> "ok"]
    /\ hFile = GridPlain
    /\ SvcStart
    /\ resp = NoResp
    /\ ConcIdle
    /\ ResolveIdle
    /\ geoFile = "missing"

SampleData ==
    /\ sOut = <<>>
    /\ sOut' = <<sample_data(MakeData(sIn.rows, sIn.cols), sIn.max_points)>>
    /\ UNCHANGED <<sIn, svcVars, concVars, resolveVars>>

NextSample == SampleData

SpecSample == InitSample /\ [][NextSample]_vars

Sampled == sOut # <<>>

\* C6: with size = rows * cols, sample_data returns its input and factor 1
\* when size <= max_points; otherwise the factor is the least f with
\* f * f * max_points >= size, and the output is the ceil(rows/f) x
\* ceil(cols/f) array whose cell (a, b) is the input's cell (a * f, b * f).
C6_SampleIsStridedDecimation ==
    Sampled =>
        LET rows == sIn.rows
            cols == sIn.cols
            size == rows * cols
            out == sOut[1].values
            f == sOut[1].factor
        IN IF size <= sIn.max_points
           THEN out = MakeData(rows, cols) /\ f = 1
           ELSE /\ f >= 1
                /\ f * f * sIn.max_points >= size
                /\ \A g \in 1..(f - 1) : g * g * sIn.max_points < size
                /\ Len(out) = CeilDiv(rows, f)
                /\ \A a \in 1..Len(out) :
                      /\ Len(out[a]) = CeilDiv(cols, f)
                      /\ \A b \in 1..Len(out[a]) :
                            out[a][b] = ((a - 1) * f) * cols + (b - 1) * f

\* C6 happens: a reduction by 2 or more whose stride divides neither side.
C6_Witness ==
    /\ Sampled
    /\ sOut[1].factor >= 2
    /\ sIn.rows % sOut[1].factor # 0
    /\ sIn.cols % sOut[1].factor # 0
    /\ Len(sOut[1].values) >= 2

\* C7: the array sample_data returns has at most max_points cells.
C7_SampledWithinMaxPoints ==
    Sampled => Size(sOut[1].values) <= sIn.max_points

-----------------------------------------------------------------------------
(* Point queries over every grid (SpecQuery) *)

QueryLats == (-MaxLat)..MaxLat
QueryLons == (-MaxLon)..MaxLon

InitQuery ==
    /\ tableState = "ok"
    /\ fileState = [layer \in Registered |-> "ok"]
    /\ hFile \in GridSet
    /\ SvcStart
    /\ resp \in {[NoResp EXCEPT !.lat = lat, !.lon = lon] :
                    lat \in QueryLats, lon \in QueryLons}
    /\ ConcIdle
    /\ SampleIdle
    /\ ResolveIdle
    /\ geoFile = "missing"

\* The request's lat and lon are fixed at the start; the query is put once
\* to the empty cache and again to the filled one.
NextQuery ==
    Predict(resp.lat, resp.lon) /\ UNCHANGED <<concVars, sampleVars, resolveVars>>

SpecQuery == InitQuery /\ [][NextQuery]_vars

\* The latest step was a point query whose dataset was loaded
Queried == resp.op = "predict" /\ LoadCalled /\ ln.status = 200

\* x lies between two elements of the axis
WithinAxis(axis, x) ==
    \E a, b \in 1..Len(axis) : axis[a] <= x /\ x <= axis[b]

IsLeast(axis, m) ==
    (\E k \in 1..Len(axis) : axis[k] = m) /\ \A k \in 1..Len(axis) : m <= axis[k]

IsGreatest(axis, m) ==
    (\E k \in 1..Len(axis) : axis[k] = m) /\ \A k \in 1..Len(axis) : m >= axis[k]

\* C8: on a grid whose axes resolve, a point query passes the range check
\* exactly when lat and lon lie within the closed ranges of the resolved
\* axes; otherwise it ends with status 400, an error naming the first
\* offending axis, the requested value and the axis's least and greatest
\* values, and no result body.
C8_RangeCheckInclusive ==
    LET ax == get_lat_lon_arrays(ln.res[1].grid)
        latIn == WithinAxis(ax.lat, resp.lat)
        lonIn == WithinAxis(ax.lon, resp.lon)
    IN (Queried /\ ax.ok) =>
        /\ resp.status # 400 <=> (latIn /\ lonIn)
        /\ resp.status = 400 => resp.body = NoBody
        /\ ~latIn =>
              /\ resp.err.axis = "Latitude" /\ resp.err.value = resp.lat
              /\ IsLeast(ax.lat, resp.err.lo) /\ IsGreatest(ax.lat, resp.err.hi)
        /\ (latIn /\ ~lonIn) =>
              /\ resp.err.axis = "Longitude" /\ resp.err.value = resp.lon
              /\ IsLeast(ax.lon, resp.err.lo) /\ IsGreatest(ax.lon, resp.err.hi)

\* C8 happens: a query on the very corner of the grid succeeds.
C8_Witness ==
    /\ Queried /\ resp.status = 200
    /\ IsGreatest(ln.res[1].grid.coords.lat, resp.lat)
    /\ IsLeast(ln.res[1].grid.coords.lon, resp.lon)

\* k, counted from 0, is the first position of the axis nearest to x
FirstNearest(axis, x, k) ==
    /\ k \in 0..(Len(axis) - 1)
    /\ \A m \in 1..Len(axis) : Abs(axis[k + 1] - x) <= Abs(axis[m] - x)
    /\ \A m \in 1..k : Abs(axis[m] - x) > Abs(axis[k + 1] - x)

\* C9: a point query that returns a result returns as i the first index
\* nearest to lat on the latitude axis and as j the first index nearest to
\* lon on the longitude axis, each found without regard to the other axis,
\* whatever the order of the axes; lat=[0,10,20], lon=[0,10] and the query
\* (12, 1) give (i=1, j=0).
C9_NearestIndexPerAxis ==
    (Queried /\ resp.status = 200) =>
        LET ds == ln.res[1].grid IN
        /\ FirstNearest(GetItem(ds, "lat").arr, resp.lat, resp.body.i)
        /\ FirstNearest(GetItem(ds, "lon").arr, resp.lon, resp.body.j)
        /\ resp.body.nearest_lat = GetItem(ds, "lat").arr[resp.body.i + 1]
        /\ resp.body.nearest_lon = GetItem(ds, "lon").arr[resp.body.j + 1]
        /\ (ds = GridPlain /\ resp.lat = 12 /\ resp.lon = 1) =>
              (resp.body.i = 1 /\ resp.body.j = 0)

\* C9 happens: a tie on both axes of a grid whose axes are not monotonic.
C9_Witness ==
    /\ Queried /\ resp.status = 200
    /\ ln.res[1].grid = GridShuffled
    /\ resp.lat = 5 /\ resp.lon = 5
    /\ resp.body.i = 1 /\ resp.body.j = 0

\* C10: the interpretation depends on the cell alone: "High potential"
\* exactly for a finite value above 0.7, "Moderate potential" exactly for a
\* finite value above 0.4 and at most 0.7, "Low potential" otherwise; a cell
\* that is not finite gives H_index null and "Low potential", not an error.
C10_ClassificationBands ==
    Queried =>
        LET ds == ln.res[1].grid IN
        /\ (InCoords(ds, "lat") /\ InCoords(ds, "lon") /\ resp.status # 400)
              => resp.status = 200
        /\ resp.status = 200 =>
              LET cell == ds.H[resp.body.i + 1][resp.body.j + 1]
                  fin == cell.kind = "finite"
                  label == resp.body.interpretation
              IN /\ label \in {"High potential", "Moderate potential", "Low potential"}
                 /\ label = "High potential" <=> (fin /\ cell.v > HighCut)
                 /\ label = "Moderate potential"
                       <=> (fin /\ cell.v > ModerateCut /\ cell.v <= HighCut)
                 /\ label = "Low potential" <=> (~fin \/ cell.v <= ModerateCut)
                 /\ resp.body.H_index = (IF fin THEN cell ELSE None)

\* C10 happens: the nearest cell holds +infinity.
C10_Witness ==
    /\ Queried /\ resp.status = 200
    /\ ln.res[1].grid.H[resp.body.i + 1][resp.body.j + 1] = PosInf
    /\ resp.body.H_index = None
    /\ resp.body.interpretation = "Low potential"

-----------------------------------------------------------------------------
(* load_netcdf(X, use_cache=True) run by several request threads (SpecConc) *)
(* The framework runs each synchronous handler on a worker thread; a thread *)
(* may be preempted between any two statements of load_netcdf.              *)

Procs == 1..NumProcs

\* Layers the racing requests ask for
ConcNames == Registered

NoReq ==
    [name |-> "", ds |-> <<>>, ret |-> <<>>, status |-> 0, opens |-> 0,
     quiet |-> <<>>, calls |-> 0]

InitConc ==
    /\ tableState = "ok"
    /\ fileState = [layer \in Registered |-> "ok"]
    /\ hFile = GridPlain
    /\ SvcStart
    /\ resp = NoResp
    /\ pc = [p \in Procs |-> "idle"]
    /\ req = [p \in Procs |-> NoReq]
    /\ lastWriter = <<>>
    /\ SampleIdle
    /\ ResolveIdle
    /\ geoFile = "missing"

concFrame == <<tableState, fileState, hFile, geoFile, firstOk, lm, ln, resp, sampleVars,
              resolveVars>>

RECURSIVE SumCalls(_)
SumCalls(p) == IF p = 0 THEN 0 ELSE req[p].calls + SumCalls(p - 1)

\* Calls of load_netcdf made so far by all threads
CallsMade == SumCalls(NumProcs)

\* A request enters load_netcdf.  quiet records the cached instance when the
\* layer is cached and no other request is inside load_netcdf.
Call(p, layer_name) ==
    /\ pc[p] = "idle"
    /\ CallsMade < MaxCalls
    /\ pc' = [pc EXCEPT ![p] = "check"]
    /\ req' = [req EXCEPT ![p] =
                 [NoReq EXCEPT
                    !.name = layer_name,
                    !.calls = req[p].calls + 1,
                    !.quiet = IF layer_name \in DOMAIN cache
                                 /\ \A q \in Procs \ {p} : pc[q] = "idle"
                              THEN <<cache[layer_name]>> ELSE <<>>]]
    /\ UNCHANGED <<metaCache, cache, nextId, tableReads, okTableReads,
                   lastWriter, concFrame>>

\* lines 140-141
Check(p) ==
    /\ pc[p] = "check"
    /\ IF CacheHit(cache, req[p].name, TRUE)
       THEN /\ req' = [req EXCEPT ![p].ret = <<cache[req[p].name]>>,
                                  ![p].status = 200]
            /\ pc' = [pc EXCEPT ![p] = "idle"]
       ELSE /\ pc' = [pc EXCEPT ![p] = "meta"]
            /\ req' = req
    /\ UNCHANGED <<metaCache, cache, nextId, tableReads, okTableReads,
                   lastWriter, concFrame>>

\* lines 143-145.  load_metadata is taken as one step: the races inside
\* lru_cache touch the registry only, never _DATASET_CACHE.
Meta(p) ==
    LET metadata == load_metadata IN
    /\ pc[p] = "meta"
    /\ tableReads + metadata.read <= MaxTableReads
    /\ metaCache' = metadata.metaCache
    /\ tableReads' = tableReads + metadata.read
    /\ okTableReads' = okTableReads + (IF metadata.ok THEN metadata.read ELSE 0)
    /\ IF ~metadata.ok
       THEN /\ req' = [req EXCEPT ![p].status = 500]
            /\ pc' = [pc EXCEPT ![p] = "idle"]
       ELSE IF req[p].name \notin metadata.table
       THEN /\ req' = [req EXCEPT ![p].status = 404]
            /\ pc' = [pc EXCEPT ![p] = "idle"]
       ELSE /\ req' = req
            /\ pc' = [pc EXCEPT ![p] = "open"]
    /\ UNCHANGED <<cache, nextId, lastWriter, concFrame>>

\* lines 149-150
Open(p) ==
    LET opened == OpenDataset(req[p].name, nextId) IN
    /\ pc[p] = "open"
    /\ IF opened = <<>>
       THEN /\ req' = [req EXCEPT ![p].status = OpenFailedStatus(req[p].name)]
            /\ pc' = [pc EXCEPT ![p] = "idle"]
            /\ nextId' = nextId
       ELSE /\ req' = [req EXCEPT ![p].ds = opened, ![p].opens = 1]
            /\ pc' = [pc EXCEPT ![p] = "store"]
            /\ nextId' = nextId + 1
    /\ UNCHANGED <<metaCache, cache, tableReads, okTableReads, lastWriter,
                   concFrame>>

\* lines 153-154
StoreEntry(p) ==
    /\ pc[p] = "store"
    /\ cache' = Store(cache, req[p].name, TRUE, req[p].ds)
    /\ lastWriter' = Put(lastWriter, req[p].name, req[p].ds[1])
    /\ pc' = [pc EXCEPT ![p] = "return"]
    /\ UNCHANGED <<req, metaCache, nextId, tableReads, okTableReads, concFrame>>

\* line 156
Return(p) ==
    /\ pc[p] = "return"
    /\ req' = [req EXCEPT ![p].ret = req[p].ds, ![p].status = 200]
    /\ pc' = [pc EXCEPT ![p] = "idle"]
    /\ UNCHANGED <<metaCache, cache, nextId, tableReads, okTableReads,
                   lastWriter, concFrame>>

NextConc ==
    \E p \in Procs :
        \/ \E layer_name \in ConcNames : Call(p, layer_name)
        \/ Check(p)
        \/ Meta(p)
        \/ Open(p)
        \/ StoreEntry(p)
        \/ Return(p)

SpecConc == InitConc /\ [][NextConc]_vars

\* inst is a whole instance loaded from the file of layer X
LoadedFor(inst, X) ==
    /\ inst.layer = X
    /\ inst.grid = Content(X)
    /\ inst.id \in 1..(nextId - 1)

\* The request of p has returned
Returned(p) == pc[p] = "idle" /\ req[p].calls > 0

\* C3: however the statements of concurrent load_netcdf(X, True) calls
\* interleave, every call returns a whole grid loaded for X; the cache entry
\* of X is absent or the whole grid stored by the latest store for X; and a
\* call that starts when X is cached and no other call is running returns
\* that cached instance and opens nothing.
C3_RaceIsBenign ==
    /\ \A p \in Procs : Returned(p) =>
          /\ req[p].status = 200
          /\ Len(req[p].ret) = 1
          /\ LoadedFor(req[p].ret[1], req[p].name)
    /\ \A X \in DOMAIN cache :
          /\ LoadedFor(cache[X], X)
          /\ X \in DOMAIN lastWriter /\ cache[X] = lastWriter[X]
    /\ DOMAIN lastWriter = DOMAIN cache
    /\ \A p \in Procs : (Returned(p) /\ req[p].quiet # <<>>) =>
          /\ req[p].ret = req[p].quiet
          /\ req[p].opens = 0
          /\ cache[req[p].name] = req[p].quiet[1]

\* C3 happens: two requests raced for the same layer and both loaded it; the
\* second request holds an instance that a later store has replaced; the
\* first then asked again, alone, and was served from the cache.
C3_Witness ==
    /\ \A p \in Procs : Returned(p)
    /\ req[1].name = req[2].name
    /\ req[2].opens = 1 /\ req[2].calls = 1
    /\ req[2].ret # <<cache[req[2].name]>>
    /\ req[1].calls = 2 /\ req[1].quiet # <<>>
    /\ req[1].ret = <<cache[req[1].name]>>
    /\ nextId = 3

-----------------------------------------------------------------------------
(* get_lat_lon_arrays on its own (SpecResolve) *)

AxisNames == {"lat", "latitude", "lon", "longitude"}

\* Where a grid keeps a name: among its coordinates, among its other
\* variables, as a dimension that has no variable, or nowhere
Places == {"coord", "var", "dim", "none"}

\* Every name has values of its own, so that the result tells which was read
AxisValues ==
    [lat |-> <<0, 10, 20>>, latitude |-> <<1, 11, 21>>,
     lon |-> <<0, 10>>, longitude |-> <<2, 12>>]

GridOf(place) ==
    [coords |-> [n \in {m \in AxisNames : place[m] = "coord"} |-> AxisValues[n]],
     vars   |-> [n \in {m \in AxisNames : place[m] = "var"} |-> AxisValues[n]],
     dims   |-> [n \in {m \in AxisNames : place[m] \in {"coord", "dim"}} |->
                   Len(AxisValues[n])],
     H      |-> GridPlain.H]

ResolveGrids == {GridOf(place) : place \in [AxisNames -> Places]}

InitResolve ==
    /\ tableState = "ok"
    /\ fileState = [layer \in Registered |-> "ok"]
    /\ hFile \in ResolveGrids
    /\ SvcStart
    /\ resp = NoResp
    /\ ConcIdle
    /\ SampleIdle
    /\ ResolveIdle
    /\ geoFile = "missing"

Resolve ==
    /\ axes = <<>>
    /\ axes' = <<get_lat_lon_arrays(hFile)>>
    /\ UNCHANGED <<svcVars, concVars, sampleVars>>

NextResolve == Resolve

SpecResolve == InitResolve /\ [][NextResolve]_vars

Resolved == axes # <<>>

\* The grid exposes an axis under this name, as a coordinate or as another
\* variable
Exposes(ds, name) == name \in DOMAIN ds.coords \cup DOMAIN ds.vars
IsCoord(ds, name) == name \in DOMAIN ds.coords
HasLatitude(ds) == Exposes(ds, "lat") \/ Exposes(ds, "latitude")
HasLongitude(ds) == Exposes(ds, "lon") \/ Exposes(ds, "longitude")

\* What the grid holds under a name it exposes
Held(ds, name) == IF IsCoord(ds, name) THEN ds.coords[name] ELSE ds.vars[name]

\* The call failed with the coordinate error that lists the grid's names
CoordinateError(ds) ==
    /\ ~axes[1].ok
    /\ axes[1].exc = "ValueError"
    /\ axes[1].inspected = DOMAIN ds.coords \cup DOMAIN ds.vars

\* C11 as stated: whenever the grid exposes both "lat" and "latitude",
\* wherever each lives, the "lat" axis is returned; likewise "lon" wins over
\* "longitude"; with no candidate for an axis the call fails with the
\* coordinate error listing the inspected names.
C11_ShortNameAlwaysWins ==
    Resolved =>
       /\ (Exposes(hFile, "lat") /\ Exposes(hFile, "latitude") /\ HasLongitude(hFile)) =>
             (axes[1].ok /\ axes[1].lat = Held(hFile, "lat"))
       /\ (Exposes(hFile, "lon") /\ Exposes(hFile, "longitude") /\ HasLatitude(hFile)) =>
             (axes[1].ok /\ axes[1].lon = Held(hFile, "lon"))
       /\ (~HasLatitude(hFile) \/ ~HasLongitude(hFile)) => CoordinateError(hFile)

\* The name that wins when both are exposed: the declared coordinates are
\* searched before the other variables, and within each the short name
\* comes first
Winner(ds, short, long) ==
    IF IsCoord(ds, short) THEN short
    ELSE IF IsCoord(ds, long) THEN long
    ELSE short

\* C11: when a grid exposes both "lat" and "latitude", the "lat" axis is
\* returned if it is a declared coordinate or if neither is one; a declared
\* coordinate "latitude" is returned in preference to a "lat" that is only a
\* variable.  The same holds for "lon" and "longitude".  With no candidate
\* for an axis the call fails with the coordinate error listing the
\* inspected names.
C11_FirstMatchCoordsThenVariables ==
    Resolved =>
       /\ (Exposes(hFile, "lat") /\ Exposes(hFile, "latitude") /\ HasLongitude(hFile)) =>
             (axes[1].ok /\ axes[1].lat = Held(hFile, Winner(hFile, "lat", "latitude")))
       /\ (Exposes(hFile, "lon") /\ Exposes(hFile, "longitude") /\ HasLatitude(hFile)) =>
             (axes[1].ok /\ axes[1].lon = Held(hFile, Winner(hFile, "lon", "longitude")))
       /\ (~HasLatitude(hFile) \/ ~HasLongitude(hFile)) => CoordinateError(hFile)

\* C11 happens: "latitude" is a declared coordinate, "lat" only a variable,
\* and the call returned the "latitude" values; "lon" and "longitude" are
\* both variables and "lon" was returned.
C11_Witness ==
    /\ Resolved
    /\ IsCoord(hFile, "latitude")
    /\ Exposes(hFile, "lat") /\ ~IsCoord(hFile, "lat")
    /\ Exposes(hFile, "lon") /\ Exposes(hFile, "longitude")
    /\ ~IsCoord(hFile, "lon") /\ ~IsCoord(hFile, "longitude")
    /\ axes[1].ok
    /\ axes[1].lat = AxisValues.latitude
    /\ axes[1].lon = AxisValues.lon

\* np.linspace(lo, hi, n) for the sizes whose steps are whole degrees
Linspace(lo, hi, n) ==
    [k \in 1..n |-> IF n = 1 THEN lo ELSE lo + ((k - 1) * (hi - lo)) \div (n - 1)]

\* A dimension of this name exists and no axis is exposed under either name
BareDimension(ds, short, long) ==
    /\ short \in DOMAIN ds.dims
    /\ ~Exposes(ds, short)
    /\ ~Exposes(ds, long)

\* C12: a grid with no "lat"/"latitude" axis but a bare dimension "lat" of
\* size n resolves to the n latitudes evenly spaced from -90 to +90, and a
\* bare dimension "lon" to the longitudes from -180 to +180, instead of
\* failing.
C12_BareDimensionSynthesized ==
    Resolved =>
       /\ (BareDimension(hFile, "lat", "latitude")
             /\ (HasLongitude(hFile) \/ BareDimension(hFile, "lon", "longitude"))) =>
             (axes[1].ok /\ axes[1].lat = Linspace(-90, 90, hFile.dims.lat))
       /\ (BareDimension(hFile, "lon", "longitude")
             /\ (HasLatitude(hFile) \/ BareDimension(hFile, "lat", "latitude"))) =>
             (axes[1].ok /\ axes[1].lon = Linspace(-180, 180, hFile.dims.lon))

-----------------------------------------------------------------------------
(* Habitat requests on their own (SpecHabitat) *)

MaxFeatures == 4

\* Thresholds in hundredths: below 0.0, the endpoints, cell values of the
\* grids, the default 0.1, above 1.0
Thresholds == {-1, 0, 10, 40, 70, 100, 101, 150}

FeatureCaps == (0..MaxFeatures) \cup {MaxFeaturesCeiling, MaxFeaturesCeiling + 1}

InitHabitat ==
    /\ tableState = "ok"
    /\ fileState \in {f \in [Registered -> FileStates] : f["sst_celsius"] = "ok"}
    /\ hFile \in GridSet
    /\ geoFile \in FileStates
    /\ SvcStart
    /\ resp \in {[NoResp EXCEPT !.threshold = t, !.max_features = m] :
                    t \in Thresholds, m \in FeatureCaps}
    /\ ConcIdle
    /\ sIn = [rows |-> 0, cols |-> 0, max_points |-> 0]
    /\ sOut = <<>>
    /\ ResolveIdle

\* The request's threshold and max_features are fixed at the start; it is
\* sent over HTTP or put to get_habitat_geojson directly, to the empty cache
\* and again to the filled one.
NextHabitat ==
    \/ GetDataHabitat(resp.threshold, resp.max_features)
          /\ UNCHANGED <<concVars, sampleVars, resolveVars>>
    \/ GetHabitatGeojson(<<>>, resp.threshold, resp.max_features)
          /\ UNCHANGED <<concVars, sampleVars, resolveVars>>

SpecHabitat == InitHabitat /\ [][NextHabitat]_vars

\* The latest step was get_habitat_geojson
Validated == resp.op = "get_habitat_geojson"

\* ... and it got the grid from load_netcdf, whose axes resolve
Extracted ==
    /\ Validated
    /\ LoadCalled /\ ln.status = 200
    /\ get_lat_lon_arrays(ln.res[1].grid).ok

CellIndices(H) == (0..(Len(H) - 1)) \X (0..(Len(H[1]) - 1))
CellAt(H, c) == H[c[1] + 1][c[2] + 1]

\* Row-major scan order
Before(a, b) == a[1] < b[1] \/ (a[1] = b[1] /\ a[2] < b[2])

\* The finite cells strictly above the threshold
FiniteAbove(H, threshold) ==
    {c \in CellIndices(H) : IsFinite(CellAt(H, c)) /\ CellAt(H, c).v > threshold}

\* The cells that compare greater than the threshold: those and the +inf cells
ComparingAbove(H, threshold) ==
    FiniteAbove(H, threshold) \cup {c \in CellIndices(H) : CellAt(H, c) = PosInf}

\* The collection holds the first n cells of Q in scan order, one feature
\* each, and reports n and the size of Q
FirstOf(geo, H, Q, n) ==
    /\ Len(geo.features) = n
    /\ \A k \in 1..n :
          LET f == geo.features[k] IN
          /\ <<f.i, f.j>> \in Q
          /\ f.H_index = CellAt(H, <<f.i, f.j>>)
          /\ Cardinality({c \in Q : Before(c, <<f.i, f.j>>)}) = k - 1
    /\ geo.total_zones = n
    /\ geo.total_available = Cardinality(Q)

\* C13 as stated: for every raster, threshold in [0,1] and valid
\* max_features, extraction returns the first min(Q, max_features) cells, in
\* row-major order, of the Q cells that are finite and strictly above the
\* threshold, with total_zones the number returned and total_available = Q.
C13_FirstFiniteCellsAbove ==
    Extracted =>
       LET H == ln.res[1].grid.H
           Q == FiniteAbove(H, resp.threshold)
       IN /\ resp.status = 200
          /\ resp.geojson # NoGeojson
          /\ FirstOf(resp.geojson[1], H, Q, Min(Cardinality(Q), resp.max_features))

\* C13: for every raster, threshold in [0,1] and valid max_features, let Q
\* be the number of cells that compare greater than the threshold: the
\* finite cells strictly above it and the +inf cells (cells equal to it, NaN
\* and -inf are excluded).  If none of the first min(Q, max_features) such
\* cells in row-major order is +inf, extraction returns exactly those cells
\* as features, with total_zones the number returned and total_available =
\* Q; if one of them is +inf the request fails with status 500 and no
\* collection.
C13_FirstCellsComparingAbove ==
    Extracted =>
       LET H == ln.res[1].grid.H
           Q == ComparingAbove(H, resp.threshold)
           n == Min(Cardinality(Q), resp.max_features)
           infinite == \E c \in Q : /\ CellAt(H, c) = PosInf
                                    /\ Cardinality({d \in Q : Before(d, c)}) < n
       IN IF infinite
          THEN resp.status = 500 /\ resp.geojson = NoGeojson
          ELSE /\ resp.status = 200
               /\ resp.geojson # NoGeojson
               /\ FirstOf(resp.geojson[1], H, Q, n)

\* C13 happens: four cells of the shuffled grid compare greater than 0.7, one
\* of them +inf; with max_features = 1 only the first is returned and the
\* cell equal to 0.7 is left out.
C13_Witness ==
    /\ Extracted
    /\ hFile = GridShuffled
    /\ resp.threshold = 70 /\ resp.max_features = 1
    /\ resp.status = 200
    /\ Len(resp.geojson[1].features) = 1
    /\ resp.geojson[1].features[1].H_index = Fin(100)
    /\ resp.geojson[1].total_zones = 1
    /\ resp.geojson[1].total_available = 4

\* C14: get_habitat_geojson answers 400, with no feature collection, exactly
\* when threshold is outside [0.0, 1.0] or max_features is outside
\* [1, 50000]; every value inside the bounds, endpoints included, is
\* accepted, and the plain grid is then extracted.
C14_RangeValidation ==
    Validated =>
       LET outside == \/ resp.threshold < 0 \/ resp.threshold > 100
                      \/ resp.max_features < 1
                      \/ resp.max_features > MaxFeaturesCeiling
       IN /\ resp.status = 400 <=> outside
          /\ resp.status = 400 => resp.geojson = NoGeojson
          /\ (~outside /\ LoadCalled /\ ln.status = 200 /\ hFile = GridPlain) =>
                (resp.status = 200 /\ resp.geojson # NoGeojson)

\* C14 happens: the endpoints threshold = 0.0 and max_features = 50000 were
\* accepted and cells were extracted.
C14_Witness ==
    /\ Validated
    /\ resp.threshold = 0 /\ resp.max_features = MaxFeaturesCeiling
    /\ resp.status = 200
    /\ Len(resp.geojson[1].features) = 4

\* A request for /data/habitat that found the polygon file absent and the
\* habitat grid loadable, with values the extractor accepts and returns
FallbackCase ==
    /\ resp.path = <<"data", "habitat">>
    /\ geoFile = "missing"
    /\ LoadCalled /\ ln.status = 200
    /\ get_lat_lon_arrays(ln.res[1].grid).ok
    /\ ThresholdValid(resp.threshold) /\ MaxFeaturesValid(resp.max_features)
    /\ \A c \in CellIndices(ln.res[1].grid.H) : CellAt(ln.res[1].grid.H, c) # PosInf

\* C16: when the polygon file is absent, GET /data/habitat returns the
\* collection of the raster-threshold extractor: one feature per
\* habitat_index_H cell above the threshold, up to max_features, and not an
\* empty feature list.
C16_FallbackIsRasterExtraction ==
    FallbackCase =>
       LET H == ln.res[1].grid.H
           Q == FiniteAbove(H, resp.threshold)
       IN /\ resp.status = 200
          /\ resp.geojson # NoGeojson
          /\ FirstOf(resp.geojson[1], H, Q, Min(Cardinality(Q), resp.max_features))

-----------------------------------------------------------------------------
(* Every request handler, one request at a time (SpecRequests) *)

\* Habitat requests the handlers are driven with, as (threshold, max_features): valid,
\* threshold above 1.0, max_features below 1
SvcHabitatArgs == {<<10, 2>>, <<150, 2>>, <<10, 0>>}

\* Colormaps: a valid one and an unknown one
SvcColormaps == {"viridis", "rainbow"}

\* max_points: the least value accepted and the one below it
SvcMaxPoints == {MinMaxPoints - 1, MinMaxPoints}

InitRequests ==
    /\ tableState \in FileStates
    /\ fileState \in [Registered -> FileStates]
    /\ hFile = GridPlain
    /\ geoFile \in {"missing", "ok"}
    /\ SvcStart
    /\ resp = NoResp
    /\ ConcIdle
    /\ sIn = [rows |-> 0, cols |-> 0, max_points |-> 0]
    /\ sOut = <<>>
    /\ ResolveIdle

\* A layer's file is removed between requests
FileRemoved ==
    /\ \E layer \in Registered :
          /\ fileState[layer] = "ok"
          /\ fileState' = [fileState EXCEPT ![layer] = "missing"]
    /\ lm' = NoMetaCall
    /\ ln' = NoCall
    /\ resp' = NoResp
    /\ UNCHANGED <<tableState, hFile, geoFile, metaCache, cache, nextId, tableReads,
                   okTableReads, firstOk>>

NextRequests ==
    \/ \E layer_name \in LayerNames, use_cache \in BOOLEAN :
          LoadNetcdfCall(layer_name, use_cache)
             /\ UNCHANGED <<concVars, sampleVars, resolveVars>>
    \/ Root /\ UNCHANGED <<concVars, sampleVars, resolveVars>>
    \/ GetLayers /\ UNCHANGED <<concVars, sampleVars, resolveVars>>
    \/ \E q \in SvcQueries :
          Predict(q[1], q[2]) /\ UNCHANGED <<concVars, sampleVars, resolveVars>>
    \/ \E layer_name \in LayerNames, max_points \in SvcMaxPoints :
          GetLayerData(layer_name, TRUE, max_points)
             /\ UNCHANGED <<concVars, sampleVars, resolveVars>>
    \/ \E layer_name \in LayerNames, cmap \in SvcColormaps :
          GetLayerMap(layer_name, cmap) /\ UNCHANGED <<concVars, sampleVars, resolveVars>>
    \/ meta /\ UNCHANGED <<concVars, sampleVars, resolveVars>>
    \/ MapLegacy /\ UNCHANGED <<concVars, sampleVars, resolveVars>>
    \/ \E a \in SvcHabitatArgs :
          GetDataHabitat(a[1], a[2]) /\ UNCHANGED <<concVars, sampleVars, resolveVars>>
    \/ \E a \in SvcHabitatArgs :
          GetHabitatGeojson(<<>>, a[1], a[2])
             /\ UNCHANGED <<concVars, sampleVars, resolveVars>>
    \/ FileRemoved /\ UNCHANGED <<concVars, sampleVars, resolveVars>>

SpecRequests == InitRequests /\ [][NextRequests]_vars

\* The latest step ended in a range error: predict outside the grid's
\* extent, or extraction with threshold or max_features out of range
RangeError ==
    /\ resp.status = 400
    /\ resp.op \in {"predict", "get_habitat_geojson"}

\* C15 as stated: an operation that ends in a range error leaves the
\* Dataset Cache exactly as it was before the call.
C15_RangeErrorKeepsCache ==
    RangeError => cache = resp.cacheBefore

\* C15: habitat extraction that ends in a range error has loaded nothing
\* and leaves the Dataset Cache exactly as it was.  predict reads the
\* extent from the grid, so a predict that ends in a range error has loaded
\* habitat_index_H: if the layer was cached the cache is as it was,
\* otherwise the only change is the new, whole entry for habitat_index_H.
C15_RangeErrorCachesOnlyTheGrid ==
    /\ (RangeError /\ resp.op = "get_habitat_geojson") =>
          (~LoadCalled /\ cache = resp.cacheBefore)
    /\ (RangeError /\ resp.op = "predict") =>
          /\ LoadCalled /\ ln.status = 200
          /\ IF "habitat_index_H" \in DOMAIN resp.cacheBefore
             THEN cache = resp.cacheBefore
             ELSE /\ DOMAIN cache = DOMAIN resp.cacheBefore \cup {"habitat_index_H"}
                  /\ \A k \in DOMAIN resp.cacheBefore : cache[k] = resp.cacheBefore[k]
                  /\ cache["habitat_index_H"] = ln.res[1]
                  /\ cache["habitat_index_H"].grid = Content("habitat_index_H")

\* C15 happens: a predict outside the extent was answered 400 and the
\* habitat grid, not cached before, is now cached beside sst_celsius.
C15_Witness ==
    /\ RangeError /\ resp.op = "predict"
    /\ DOMAIN resp.cacheBefore = {"sst_celsius"}
    /\ DOMAIN cache = Registered

\* C18: after any sequence of requests, one at a time, the keys of
\* _DATASET_CACHE are registered layer names, every entry is the whole grid
\* opened from its layer's file, and the cache only grows: what was cached
\* before the latest request, and what the first successful cached load of
\* a layer returned, is still there, the same instance.
C18_CacheOnlyGrows ==
    /\ DOMAIN cache \subseteq Registered
    /\ \A k \in DOMAIN cache :
          /\ cache[k].layer = k
          /\ cache[k].grid = Content(k)
          /\ cache[k].id \in 1..(nextId - 1)
    /\ \A k \in DOMAIN resp.cacheBefore :
          k \in DOMAIN cache /\ cache[k] = resp.cacheBefore[k]
    /\ \A k \in DOMAIN firstOk :
          k \in DOMAIN cache /\ cache[k] = firstOk[k]

\* C18 happens: both layers are cached, the file of one has since been
\* removed, and an extraction was refused with a range error without
\* touching the cache.
C18_Witness ==
    /\ DOMAIN cache = Registered
    /\ \E k \in Registered : fileState[k] = "missing"
    /\ resp.op = "get_habitat_geojson"
    /\ resp.status = 400
    /\ resp.cacheBefore = cache

-----------------------------------------------------------------------------
(* The point query and the Coordinate Resolver (SpecQuery) *)

\* C17: on every grid whose axes get_lat_lon_arrays resolves, grids with
\* only "latitude"/"longitude" included, and for every (lat, lon) within
\* those axes, predict answers 200 and its nearest_lat/nearest_lon are
\* elements of the resolved axes, the ones the range check used.
C17_QueryUsesResolvedAxes ==
    Queried =>
       LET ax == get_lat_lon_arrays(ln.res[1].grid) IN
       (ax.ok /\ WithinAxis(ax.lat, resp.lat) /\ WithinAxis(ax.lon, resp.lon)) =>
          /\ resp.status = 200
          /\ resp.body.nearest_lat = ax.lat[resp.body.i + 1]
          /\ resp.body.nearest_lon = ax.lon[resp.body.j + 1]

=============================================================================
